---- MODULE Spec2Model ----
(***************************************************************************)
(* A model of scripts/jpdg/slicer.py: the Slicer client, which talks to a  *)
(* `slicebot` subprocess over its stdin/stdout.  Caller threads run        *)
(* command() and close(); the reader thread runs listen(); the subprocess  *)
(* is the environment.                                                     *)
(*                                                                         *)
(* Bytes are naturals.  NL is "\n".  Any other byte b >= 1 of the main     *)
(* specification stands for the text "VERB SP base64(payload)" of one      *)
(* protocol line: b = 3 * payload + verb, with verb in 1..3.               *)
(***************************************************************************)
EXTENDS Integers, Sequences, FiniteSets, TLC

VARIABLES
    pc,           \* position of every thread in its code
    produced,     \* history: every line appended to self.lines, in order
    consumed,     \* history: every line popped from self.lines, in order
    slicer_lock,  \* self.slicer_lock: the thread holding it, or NoThread
    lines,        \* self.lines: the deque of complete lines
    closed,       \* self.closed
    chunk,        \* listen()'s local `chunk`: the unterminated remainder
    pipe,         \* bytes the subprocess wrote to stdout and nobody read yet
    stdin,        \* requests the subprocess received and did not answer yet
    proc,         \* the subprocess: "running" or "exited"
    outClosed,    \* the subprocess's stdout is closed (EOF after `pipe`)
    kills,        \* number of self.p.kill() calls made
    joins,        \* number of self.read_thread.join() calls that returned
    waits,        \* number of self.p.wait() calls that returned
    winners,      \* the _close invocations that set self.closed
    opsLeft,      \* operations the callers may still start
    req,          \* id of the last request each caller wrote
    result,       \* outcome of each caller's last finished operation
    entryClosed,  \* self.closed as it was when the caller entered its operation
    nextId,       \* id of the next request written
    unsol,        \* lines the subprocess emitted without a request
    eofWhen,      \* what the callers were doing when stdout was closed
    readEnd,      \* how listen()'s last os.read ended: "eof" or "error"
    stream,       \* framer runs: every byte the subprocess wrote to stdout
    payload,      \* decoder runs: the decoded CANDIDATES payload
    cand          \* decoder runs: what candidates_response produced

vars == <<pc, produced, consumed, slicer_lock, lines, closed, chunk, pipe,
          stdin, proc, outClosed,
          kills, joins, waits, winners, opsLeft, req, result, entryClosed,
          nextId, unsol, eofWhen, readEnd, stream, payload, cand>>

(* ---------------------------- bounds ---------------------------------- *)
NCallers == 2
MaxOps == 3
MaxUnsolicited == 1
MaxStream == 5
MaxPayload == 4

Reader == 0
NoThread == -1
Callers == 1..NCallers
Threads == Callers \cup {Reader}

NL == 0
OK == 1
ERROR == 2
BAD == 3
Verbs == {OK, ERROR, BAD}

Line(verb, id) == <<3 * id + verb>>

NoResult == [op |-> "none", out |-> "none", line |-> -1]
NoCand == [done |-> FALSE, raised |-> FALSE, rows |-> <<>>]

Seqs(S, n) == UNION {[1..k -> S] : k \in 0..n}

(* ------------------------- pure helpers ------------------------------- *)
\* "\n" in chunk (slicer.py:203)
HasNL(s) == \E i \in 1..Len(s) : s[i] = NL

FirstNL(s) == CHOOSE i \in 1..Len(s) : s[i] = NL /\ \A j \in 1..(i - 1) : s[j] # NL

LastNL(s) == CHOOSE i \in 1..Len(s) : s[i] = NL /\ \A j \in (i + 1)..Len(s) : s[j] # NL

\* the split taken at the last newline instead of the first
SplitLast(s) ==
    <<SubSeq(s, 1, LastNL(s) - 1), SubSeq(s, LastNL(s) + 1, Len(s))>>

\* chunk.split('\n', 1) (slicer.py:214): <<line, remainder>>
SplitFirst(s) ==
    <<SubSeq(s, 1, FirstNL(s) - 1), SubSeq(s, FirstNL(s) + 1, Len(s))>>

\* process_line (slicer.py:228-235): <<command, rest>> of a line.  The split
\* on the first space and the base64 decoding of the rest are the two
\* projections of the line's byte; a line with no byte has an empty command
\* and no rest.
process_line(line) ==
    IF line = <<>> THEN <<BAD, -1>>
    ELSE <<((line[1] - 1) % 3) + 1, (line[1] - 1) \div 3>>

\* the dispatch with the ERROR test left out
generic_response_no_error(cmd) == IF cmd = BAD THEN "bad" ELSE "ok"

\* generic_response's dispatch on the verb (slicer.py:85-90)
generic_response(cmd) ==
    IF cmd = ERROR THEN "error"
    ELSE IF cmd # OK THEN "bad"
    ELSE "ok"

Waiters == {t \in Callers : pc[t] = "wait"}

\* Condition.notify(): one thread blocked in wait(), if any, wakes up
Notified(p) ==
    IF Waiters = {} THEN {p}
    ELSE {[p EXCEPT ![w] = "get_line"] : w \in Waiters}

\* Condition.notifyAll(): every thread blocked in wait() wakes up
NotifiedAll(p) == [t \in Threads |-> IF p[t] = "wait" THEN "get_line" ELSE p[t]]

\* a reader that goes round its loop again once _close returns
ReturnedToLoop(t) == IF t = Reader THEN "listen" ELSE "idle"

\* where a thread goes when _close returns
Returned(t) == IF t = Reader THEN "done" ELSE "idle"

InFlight == {t \in Callers : pc[t] \in {"get_line", "wait"}}

(* --------------------------- initial state ---------------------------- *)
\* Slicer.__init__ (slicer.py:37-49)
ClientInit ==
    /\ pc = [t \in Threads |-> IF t = Reader THEN "listen" ELSE "idle"]
    /\ slicer_lock = NoThread
    /\ lines = <<>>
    /\ produced = <<>>
    /\ consumed = <<>>
    /\ closed = FALSE
    /\ chunk = <<>>
    /\ pipe = <<>>
    /\ stdin = <<>>
    /\ proc = "running"
    /\ outClosed = FALSE
    /\ kills = 0
    /\ joins = 0
    /\ waits = 0
    /\ winners = {}
    /\ req = [t \in Callers |-> 0]
    /\ result = [t \in Callers |-> NoResult]
    /\ entryClosed = [t \in Callers |-> FALSE]
    /\ nextId = 1
    /\ unsol = 0
    /\ eofWhen = "none"
    /\ readEnd = "none"

Init ==
    /\ ClientInit
    /\ opsLeft = MaxOps
    /\ stream = <<>>
    /\ payload = <<>>
    /\ cand = NoCand

(* ----------------------------- listen() ------------------------------- *)
\* os.read returned data (slicer.py:205, 209): any non-empty prefix of what
\* the pipe holds
ListenRead ==
    /\ pc[Reader] = "listen"
    /\ ~HasNL(chunk)
    /\ \E n \in 1..Len(pipe) :
        /\ chunk' = chunk \o SubSeq(pipe, 1, n)
        /\ pipe' = SubSeq(pipe, n + 1, Len(pipe))
    /\ UNCHANGED <<produced, consumed, readEnd, pc, slicer_lock, lines,
                   closed, stdin, proc, outClosed, kills, joins, waits,
                   winners, opsLeft, req, result, entryClosed, nextId, unsol,
                   eofWhen, stream, payload, cand>>

\* a reader that, at EOF, enqueues its unterminated remainder as a last line
ListenEOFFlush ==
    /\ pc[Reader] = "listen"
    /\ ~HasNL(chunk)
    /\ pipe = <<>>
    /\ outClosed
    /\ lines' = IF chunk = <<>> THEN lines ELSE Append(lines, chunk)
    /\ produced' = IF chunk = <<>> THEN produced ELSE Append(produced, chunk)
    /\ pc' = [pc EXCEPT ![Reader] = "close_lock"]
    /\ readEnd' = "eof"
    /\ UNCHANGED <<consumed, slicer_lock, closed, chunk, pipe, stdin, proc,
                   outClosed, kills, joins, waits, winners, opsLeft, req,
                   result, entryClosed, nextId, unsol, eofWhen, stream,
                   payload, cand>>

\* os.read returned '' (slicer.py:206-208): self._close(True) is entered
ListenEOF ==
    /\ pc[Reader] = "listen"
    /\ ~HasNL(chunk)
    /\ pipe = <<>>
    /\ outClosed
    /\ pc' = [pc EXCEPT ![Reader] = "close_lock"]
    /\ readEnd' = "eof"
    /\ UNCHANGED <<produced, consumed, slicer_lock, lines, closed, chunk,
                   pipe, stdin, proc, outClosed, kills, joins, waits, winners,
                   opsLeft, req, result, entryClosed, nextId, unsol, eofWhen,
                   stream, payload, cand>>

\* os.read raised (slicer.py:210-213): self._close(True) is entered
ListenError ==
    /\ pc[Reader] = "listen"
    /\ ~HasNL(chunk)
    /\ pc' = [pc EXCEPT ![Reader] = "close_lock"]
    /\ readEnd' = "error"
    /\ UNCHANGED <<produced, consumed, slicer_lock, lines, closed, chunk,
                   pipe, stdin, proc, outClosed, kills, joins, waits, winners,
                   opsLeft, req, result, entryClosed, nextId, unsol, eofWhen,
                   stream, payload, cand>>

\* a reader that keeps a line only if a command is waiting for one
ListenAppendDropIdle ==
    /\ pc[Reader] = "listen"
    /\ HasNL(chunk)
    /\ lines' = IF InFlight = {} THEN lines ELSE Append(lines, SplitFirst(chunk)[1])
    /\ produced' = IF InFlight = {} THEN produced
                   ELSE Append(produced, SplitFirst(chunk)[1])
    /\ chunk' = SplitFirst(chunk)[2]
    /\ pc' \in Notified(pc)
    /\ UNCHANGED <<consumed, readEnd, slicer_lock, closed, pipe, stdin, proc,
                   outClosed, kills, joins, waits, winners, opsLeft, req,
                   result, entryClosed, nextId, unsol, eofWhen, stream,
                   payload, cand>>

\* slicer.py:214-217: split off the first line, append it, notify one waiter
ListenAppend ==
    /\ pc[Reader] = "listen"
    /\ HasNL(chunk)
    /\ lines' = Append(lines, SplitFirst(chunk)[1])
    /\ produced' = Append(produced, SplitFirst(chunk)[1])
    /\ chunk' = SplitFirst(chunk)[2]
    /\ pc' \in Notified(pc)
    /\ UNCHANGED <<consumed, readEnd, slicer_lock, closed, pipe, stdin, proc,
                   outClosed, kills, joins, waits, winners, opsLeft, req,
                   result, entryClosed, nextId, unsol, eofWhen, stream,
                   payload, cand>>

(* ----------------------------- _close() ------------------------------- *)
\* `with self.slicer_lock:` (slicer.py:63)
CloseLock(t) ==
    /\ pc[t] = "close_lock"
    /\ slicer_lock = NoThread
    /\ slicer_lock' = t
    /\ pc' = [pc EXCEPT ![t] = "close_check"]
    /\ UNCHANGED <<produced, consumed, readEnd, lines, closed, chunk, pipe,
                   stdin, proc, outClosed, kills, joins, waits, winners,
                   opsLeft, req, result, entryClosed, nextId, unsol, eofWhen,
                   stream, payload, cand>>

\* the check-and-set without the check: every invocation sets the flag
CloseCheckUnguarded(t) ==
    /\ pc[t] = "close_check"
    /\ slicer_lock' = NoThread
    /\ closed' = TRUE
    /\ winners' = winners \cup {t}
    /\ pc' = [NotifiedAll(pc) EXCEPT ![t] = "close_kill"]
    /\ UNCHANGED <<produced, consumed, readEnd, lines, chunk, pipe, stdin,
                   proc, outClosed, kills, joins, waits, opsLeft, req, result,
                   entryClosed, nextId, unsol, eofWhen, stream, payload,
                   cand>>

\* the check-and-set whose `return` is missing: a closed flag found set is
\* left alone, and the invocation goes on to kill
CloseCheckNoReturn(t) ==
    /\ pc[t] = "close_check"
    /\ slicer_lock' = NoThread
    /\ closed' = TRUE
    /\ winners' = IF closed THEN winners ELSE winners \cup {t}
    /\ pc' = [NotifiedAll(pc) EXCEPT ![t] = "close_kill"]
    /\ UNCHANGED <<produced, consumed, readEnd, lines, chunk, pipe, stdin,
                   proc, outClosed, kills, joins, waits, opsLeft, req, result,
                   entryClosed, nextId, unsol, eofWhen, stream, payload,
                   cand>>

\* a shutdown that goes on to the kill without setting the flag
CloseCheckNoSet(t) ==
    /\ pc[t] = "close_check"
    /\ slicer_lock' = NoThread
    /\ IF closed
       THEN /\ pc' = [pc EXCEPT ![t] = Returned(t)]
            /\ result' = IF t = Reader THEN result
                         ELSE [result EXCEPT ![t] =
                                 [op |-> "close", out |-> "noop", line |-> -1]]
            /\ UNCHANGED <<closed, winners>>
       ELSE /\ winners' = winners \cup {t}
            /\ pc' = [NotifiedAll(pc) EXCEPT ![t] = "close_kill"]
            /\ UNCHANGED <<closed, result>>
    /\ UNCHANGED <<produced, consumed, readEnd, lines, chunk, pipe, stdin,
                   proc, outClosed, kills, joins, waits, opsLeft, req,
                   entryClosed, nextId, unsol, eofWhen, stream, payload,
                   cand>>

\* `with self.lines_cv:` check-and-set of self.closed, then both locks are
\* released (slicer.py:64-70)
CloseCheck(t) ==
    /\ pc[t] = "close_check"
    /\ slicer_lock' = NoThread
    /\ IF closed
       THEN /\ pc' = [pc EXCEPT ![t] = Returned(t)]
            /\ result' = IF t = Reader THEN result
                         ELSE [result EXCEPT ![t] =
                                 [op |-> "close", out |-> "noop", line |-> -1]]
            /\ UNCHANGED <<closed, winners>>
       ELSE /\ closed' = TRUE
            /\ winners' = winners \cup {t}
            /\ pc' = [NotifiedAll(pc) EXCEPT ![t] = "close_kill"]
            /\ UNCHANGED result
    /\ UNCHANGED <<produced, consumed, readEnd, lines, chunk, pipe, stdin,
                   proc, outClosed, kills, joins, waits, opsLeft, req,
                   entryClosed, nextId, unsol, eofWhen, stream, payload,
                   cand>>

\* the kill followed directly by the wait, the join left out
CloseKillThenWait(t) ==
    /\ pc[t] = "close_kill"
    /\ kills' = kills + 1
    /\ pc' = [pc EXCEPT ![t] = "close_wait"]
    /\ UNCHANGED <<produced, consumed, readEnd, slicer_lock, lines, closed,
                   chunk, pipe, stdin, proc, outClosed, joins, waits, winners,
                   opsLeft, req, result, entryClosed, nextId, unsol, eofWhen,
                   stream, payload, cand>>

\* self.p.kill() (slicer.py:71)
CloseKill(t) ==
    /\ pc[t] = "close_kill"
    /\ kills' = kills + 1
    /\ pc' = [pc EXCEPT ![t] = IF t = Reader THEN "close_wait" ELSE "close_join"]
    /\ UNCHANGED <<produced, consumed, readEnd, slicer_lock, lines, closed,
                   chunk, pipe, stdin, proc, outClosed, joins, waits, winners,
                   opsLeft, req, result, entryClosed, nextId, unsol, eofWhen,
                   stream, payload, cand>>

\* self.read_thread.join() (slicer.py:72-73): returns once listen() returned
CloseJoin(t) ==
    /\ pc[t] = "close_join"
    /\ pc[Reader] = "done"
    /\ joins' = joins + 1
    /\ pc' = [pc EXCEPT ![t] = "close_wait"]
    /\ UNCHANGED <<produced, consumed, readEnd, slicer_lock, lines, closed,
                   chunk, pipe, stdin, proc, outClosed, kills, waits, winners,
                   opsLeft, req, result, entryClosed, nextId, unsol, eofWhen,
                   stream, payload, cand>>

\* self.p.wait() (slicer.py:74): returns once the subprocess has exited
CloseWait(t) ==
    /\ pc[t] = "close_wait"
    /\ proc = "exited"
    /\ waits' = waits + 1
    /\ pc' = [pc EXCEPT ![t] = Returned(t)]
    /\ result' = IF t = Reader THEN result
                 ELSE [result EXCEPT ![t] =
                         [op |-> "close", out |-> "closed", line |-> -1]]
    /\ UNCHANGED <<produced, consumed, readEnd, slicer_lock, lines, closed,
                   chunk, pipe, stdin, proc, outClosed, kills, joins, winners,
                   opsLeft, req, entryClosed, nextId, unsol, eofWhen, stream,
                   payload, cand>>

(* ------------------------------ close() ------------------------------- *)
\* close (slicer.py:57-58): a caller enters self._close(False)
StartClose(t) ==
    /\ pc[t] = "idle"
    /\ opsLeft > 0
    /\ opsLeft' = opsLeft - 1
    /\ entryClosed' = [entryClosed EXCEPT ![t] = closed]
    /\ result' = [result EXCEPT ![t] = NoResult]
    /\ pc' = [pc EXCEPT ![t] = "close_lock"]
    /\ UNCHANGED <<produced, consumed, readEnd, slicer_lock, lines, closed,
                   chunk, pipe, stdin, proc, outClosed, kills, joins, waits,
                   winners, req, nextId, unsol, eofWhen, stream, payload,
                   cand>>

(* ----------------------------- command() ------------------------------ *)
\* a caller enters command() (slicer.py:194), here load() (slicer.py:80-81)
StartCommand(t) ==
    /\ pc[t] = "idle"
    /\ opsLeft > 0
    /\ opsLeft' = opsLeft - 1
    /\ entryClosed' = [entryClosed EXCEPT ![t] = closed]
    /\ result' = [result EXCEPT ![t] = NoResult]
    /\ pc' = [pc EXCEPT ![t] = "cmd_lock"]
    /\ UNCHANGED <<produced, consumed, readEnd, slicer_lock, lines, closed,
                   chunk, pipe, stdin, proc, outClosed, kills, joins, waits,
                   winners, req, nextId, unsol, eofWhen, stream, payload,
                   cand>>

\* command() entered without waiting for the lock to be free
CmdLockNoWait(t) ==
    /\ pc[t] = "cmd_lock"
    /\ slicer_lock' = t
    /\ pc' = [pc EXCEPT ![t] = "cmd_write"]
    /\ UNCHANGED <<produced, consumed, readEnd, lines, closed, chunk, pipe,
                   stdin, proc, outClosed, kills, joins, waits, winners,
                   opsLeft, req, result, entryClosed, nextId, unsol, eofWhen,
                   stream, payload, cand>>

\* `with self.slicer_lock:` (slicer.py:195)
CmdLock(t) ==
    /\ pc[t] = "cmd_lock"
    /\ slicer_lock = NoThread
    /\ slicer_lock' = t
    /\ pc' = [pc EXCEPT ![t] = "cmd_write"]
    /\ UNCHANGED <<produced, consumed, readEnd, lines, closed, chunk, pipe,
                   stdin, proc, outClosed, kills, joins, waits, winners,
                   opsLeft, req, result, entryClosed, nextId, unsol, eofWhen,
                   stream, payload, cand>>

\* self.p.stdin.write(msg) (slicer.py:196-197): the subprocess receives the
\* request, which gets the next id, or the write raises because the pipe's
\* reader is gone and the `with` releases the lock
CmdWrite(t) ==
    /\ pc[t] = "cmd_write"
    /\ IF proc = "running"
       THEN /\ stdin' = Append(stdin, nextId)
            /\ req' = [req EXCEPT ![t] = nextId]
            /\ nextId' = nextId + 1
            /\ pc' = [pc EXCEPT ![t] = "get_line"]
            /\ UNCHANGED <<slicer_lock, result>>
       ELSE /\ slicer_lock' = NoThread
            /\ pc' = [pc EXCEPT ![t] = "idle"]
            /\ result' = [result EXCEPT ![t] =
                            [op |-> "command", out |-> "ioerror", line |-> -1]]
            /\ UNCHANGED <<stdin, req, nextId>>
    /\ UNCHANGED <<produced, consumed, readEnd, lines, closed, chunk, pipe,
                   proc, outClosed, kills, joins, waits, winners, opsLeft,
                   entryClosed, unsol, eofWhen, stream, payload, cand>>

\* get_line() taking the newest line (pop) instead of the oldest (popleft)
GetLinePopRight(t) ==
    /\ pc[t] = "get_line"
    /\ IF lines # <<>>
       THEN /\ lines' = SubSeq(lines, 1, Len(lines) - 1)
            /\ consumed' = Append(consumed, lines[Len(lines)])
            /\ result' = [result EXCEPT ![t] =
                            [op |-> "command",
                             out |-> generic_response(process_line(lines[Len(lines)])[1]),
                             line |-> process_line(lines[Len(lines)])[2]]]
            /\ slicer_lock' = NoThread
            /\ pc' = [pc EXCEPT ![t] = "idle"]
       ELSE IF closed
       THEN /\ result' = [result EXCEPT ![t] =
                            [op |-> "command", out |-> "closed", line |-> -1]]
            /\ slicer_lock' = NoThread
            /\ pc' = [pc EXCEPT ![t] = "idle"]
            /\ UNCHANGED <<lines, consumed>>
       ELSE /\ pc' = [pc EXCEPT ![t] = "wait"]
            /\ UNCHANGED <<lines, consumed, result, slicer_lock>>
    /\ UNCHANGED <<produced, readEnd, closed, chunk, pipe, stdin, proc,
                   outClosed, kills, joins, waits, winners, opsLeft, req,
                   entryClosed, nextId, unsol, eofWhen, stream, payload, cand>>

\* get_line() looking at the closed flag before it looks at the queue
GetLineClosedFirst(t) ==
    /\ pc[t] = "get_line"
    /\ IF closed
       THEN /\ result' = [result EXCEPT ![t] =
                            [op |-> "command", out |-> "closed", line |-> -1]]
            /\ slicer_lock' = NoThread
            /\ pc' = [pc EXCEPT ![t] = "idle"]
            /\ UNCHANGED <<lines, consumed>>
       ELSE IF lines # <<>>
       THEN /\ lines' = Tail(lines)
            /\ consumed' = Append(consumed, Head(lines))
            /\ result' = [result EXCEPT ![t] =
                            [op |-> "command",
                             out |-> generic_response(process_line(Head(lines))[1]),
                             line |-> process_line(Head(lines))[2]]]
            /\ slicer_lock' = NoThread
            /\ pc' = [pc EXCEPT ![t] = "idle"]
       ELSE /\ pc' = [pc EXCEPT ![t] = "wait"]
            /\ UNCHANGED <<lines, consumed, result, slicer_lock>>
    /\ UNCHANGED <<produced, readEnd, closed, chunk, pipe, stdin, proc,
                   outClosed, kills, joins, waits, winners, opsLeft, req,
                   entryClosed, nextId, unsol, eofWhen, stream, payload, cand>>

\* response() -> get_line() (slicer.py:198, 84-90, 219-226): one pass of the
\* `while len(self.lines) <= 0` loop under lines_cv.  A line is popped,
\* processed and dispatched on, and command()'s `with` releases the lock; or
\* the closed flag raises; or the thread blocks in lines_cv.wait().
GetLine(t) ==
    /\ pc[t] = "get_line"
    /\ IF lines # <<>>
       THEN /\ lines' = Tail(lines)
            /\ result' = [result EXCEPT ![t] =
                            [op |-> "command",
                             out |-> generic_response(process_line(Head(lines))[1]),
                             line |-> process_line(Head(lines))[2]]]
            /\ slicer_lock' = NoThread
            /\ pc' = [pc EXCEPT ![t] = "idle"]
       ELSE IF closed
       THEN /\ result' = [result EXCEPT ![t] =
                            [op |-> "command", out |-> "closed", line |-> -1]]
            /\ slicer_lock' = NoThread
            /\ pc' = [pc EXCEPT ![t] = "idle"]
            /\ UNCHANGED lines
       ELSE /\ pc' = [pc EXCEPT ![t] = "wait"]
            /\ UNCHANGED <<lines, result, slicer_lock>>
    /\ consumed' = IF lines # <<>> THEN Append(consumed, Head(lines)) ELSE consumed
    /\ UNCHANGED <<produced, readEnd, closed, chunk, pipe, stdin, proc,
                   outClosed, kills, joins, waits, winners, opsLeft, req,
                   entryClosed, nextId, unsol, eofWhen, stream, payload,
                   cand>>

(* --------------------------- the subprocess --------------------------- *)
\* what the callers are doing at the moment stdout is closed
EofClass ==
    IF \E t \in Callers : pc[t] = "wait" /\ lines = <<>> THEN "blocked"
    ELSE IF \A t \in Callers : pc[t] = "idle" THEN "idle"
    ELSE "other"

\* the subprocess answers its oldest request with one line
ProcRespond ==
    /\ proc = "running"
    /\ ~outClosed
    /\ stdin # <<>>
    /\ \E v \in Verbs : pipe' = pipe \o Line(v, Head(stdin)) \o <<NL>>
    /\ stdin' = Tail(stdin)
    /\ UNCHANGED <<produced, consumed, readEnd, pc, slicer_lock, lines,
                   closed, chunk, proc, outClosed, kills, joins, waits,
                   winners, opsLeft, req, result, entryClosed, nextId, unsol,
                   eofWhen, stream, payload, cand>>

\* the subprocess emits a line nobody asked for
ProcUnsolicited ==
    /\ proc = "running"
    /\ ~outClosed
    /\ unsol < MaxUnsolicited
    /\ unsol' = unsol + 1
    /\ \E v \in Verbs : pipe' = pipe \o Line(v, 0) \o <<NL>>
    /\ UNCHANGED <<produced, consumed, readEnd, pc, slicer_lock, lines,
                   closed, chunk, stdin, proc, outClosed, kills, joins, waits,
                   winners, opsLeft, req, result, entryClosed, nextId,
                   eofWhen, stream, payload, cand>>

\* the subprocess closes its stdout and keeps running
ProcCloseOut ==
    /\ proc = "running"
    /\ ~outClosed
    /\ outClosed' = TRUE
    /\ eofWhen' = EofClass
    /\ UNCHANGED <<produced, consumed, readEnd, pc, slicer_lock, lines,
                   closed, chunk, pipe, stdin, proc, kills, joins, waits,
                   winners, opsLeft, req, result, entryClosed, nextId, unsol,
                   stream, payload, cand>>

\* the subprocess exits, killed (slicer.py:71) or on its own
ProcExit ==
    /\ proc = "running"
    /\ proc' = "exited"
    /\ outClosed' = TRUE
    /\ stdin' = <<>>
    /\ eofWhen' = IF outClosed THEN eofWhen ELSE EofClass
    /\ UNCHANGED <<produced, consumed, readEnd, pc, slicer_lock, lines,
                   closed, chunk, pipe, kills, joins, waits, winners, opsLeft,
                   req, result, entryClosed, nextId, unsol, stream, payload,
                   cand>>

(* --------------------------- specification ---------------------------- *)
Next ==
    \/ ListenRead
    \/ ListenEOF
    \/ ListenError
    \/ ListenAppend
    \/ \E t \in Threads : CloseLock(t)
    \/ \E t \in Threads : CloseCheck(t)
    \/ \E t \in Threads : CloseKill(t)
    \/ \E t \in Callers : CloseJoin(t)
    \/ \E t \in Threads : CloseWait(t)
    \/ \E t \in Callers : StartClose(t)
    \/ \E t \in Callers : StartCommand(t)
    \/ \E t \in Callers : CmdLock(t)
    \/ \E t \in Callers : CmdWrite(t)
    \/ \E t \in Callers : GetLine(t)
    \/ ProcRespond
    \/ ProcUnsolicited
    \/ ProcCloseOut
    \/ ProcExit

Spec == Init /\ [][Next]_vars

(* ------------------------------ claims -------------------------------- *)
\* Caller t is blocked in lines_cv.wait() under the command lock, the queue
\* is empty, and the reader, the only producer of lines, has read EOF, left
\* its loop and waits in _close(True) for the command lock.  No action of either
\* thread is enabled, and no other thread can set the closed flag, since that
\* needs the command lock as well.
Hung(t) ==
    /\ pc[t] = "wait"
    /\ lines = <<>>
    /\ slicer_lock = t
    /\ pc[Reader] = "close_lock"
    /\ readEnd = "eof"

\* C1: if the subprocess closes its output while a command is blocked in
\* get_line() on an empty queue, the command fails with the closed error: no
\* state has the caller waiting on the queue while the reader is stuck in its
\* shutdown attempt.
C1_BlockedCommandFailsOnEOF ==
    eofWhen = "blocked" => \A t \in Callers : ~Hung(t)

\* C2: if the subprocess closes its output while no command is in flight,
\* every command issued afterwards ends with a failure: it never blocks for
\* good and never returns a response.
C2_CommandAfterEOFFails ==
    [][(eofWhen = "idle" /\ unsol = 0) =>
          \A t \in Callers :
              /\ ~Hung(t)'
              /\ (pc[t] = "get_line" /\ pc'[t] = "idle")
                    => result'[t].out \in {"closed", "ioerror"}]_vars

\* C3: at most one command is in flight: no request is written between
\* another command's write and the end of that command's response read.
C3_OneCommandInFlight ==
    /\ Cardinality(InFlight) <= 1
    /\ \A t \in Callers :
          pc[t] \in {"cmd_write", "get_line", "wait"} => slicer_lock = t

\* one command awaits its response while another caller waits for the lock
C3_Witness ==
    \E t, u \in Callers : pc[t] = "wait" /\ pc[u] = "cmd_lock"

\* C4: with a subprocess that emits one response per request, in request
\* order, the line a command consumes is the reply to its own request.
C4_OwnResponse ==
    unsol = 0 =>
        \A t \in Callers :
            (result[t].op = "command" /\ result[t].line # -1)
                => result[t].line = req[t]

\* C5: close() entered with the closed flag set is a no-op: it returns
\* through the check without raising and never kills, joins or waits; its
\* steps leave the closed flag and the line queue as they are.
C5_CloseOnClosedIsNoop ==
    [][\A t \in Callers :
          (entryClosed[t] /\ pc[t] \in {"close_lock", "close_check"}
             /\ pc'[t] # pc[t])
            => /\ pc'[t] \in {"close_check", "idle"}
               /\ pc'[t] = "idle" => result'[t].out = "noop"
               /\ UNCHANGED <<closed, lines, kills, joins, waits>>]_vars

\* a close() entered on a closed connection has returned as a no-op
C5_Witness ==
    \E t \in Callers :
        entryClosed[t] /\ pc[t] = "idle" /\ result[t].op = "close"
            /\ result[t].out = "noop"

\* C6: however _close(True) and close() calls interleave, exactly one
\* invocation wins the check-and-set of the closed flag, and the subprocess
\* is killed, the reader joined and the process waited on at most once, and
\* only by the winner.
C6_OneWinner ==
    /\ Cardinality(winners) <= 1
    /\ closed <=> Cardinality(winners) = 1
    /\ kills <= 1 /\ joins <= 1 /\ waits <= 1
    /\ \A t \in Threads :
          pc[t] \in {"close_kill", "close_join", "close_wait"} => t \in winners

\* the reader's shutdown won, killed once, and a caller's close() lost
C6_Witness ==
    /\ winners = {Reader}
    /\ kills = 1
    /\ \E t \in Callers : result[t].op = "close" /\ result[t].out = "noop"

\* C7: whenever an external close() has returned, the subprocess has been
\* killed and reaped and the reader thread has finished.
C7_CloseReturnsAfterReap ==
    \A t \in Callers :
        (pc[t] = "idle" /\ result[t].op = "close")
            => (kills >= 1 /\ waits >= 1 /\ proc = "exited" /\ pc[Reader] = "done")

\* C8: a response with verb ERROR, or with a verb other than the expected
\* one, fails that call only: the call ends with the matching failure, the
\* closed flag and the subprocess are left alone, the command lock is
\* released and exactly one line has left the queue.
C8_FailedCommandLeavesConnection ==
    [][\A t \in Callers :
          (pc[t] = "get_line" /\ pc'[t] = "idle" /\ lines # <<>>
             /\ process_line(Head(lines))[1] # OK)
            => /\ result'[t].out =
                     (IF process_line(Head(lines))[1] = ERROR THEN "error" ELSE "bad")
               /\ lines' = Tail(lines)
               /\ slicer_lock = t /\ slicer_lock' = NoThread
               /\ UNCHANGED <<closed, kills, winners, proc>>]_vars

\* after one caller's command failed on an ERROR reply, a later command got
\* the reply to its own request on the same, still open, connection
C8_Witness ==
    \E t, u \in Callers :
        /\ result[t].op = "command" /\ result[t].out = "error"
        /\ result[t].line = req[t]
        /\ result[u].op = "command" /\ result[u].out = "ok"
        /\ result[u].line = req[u]
        /\ req[u] > req[t]
        /\ ~closed /\ kills = 0 /\ proc = "running"

(* ------------------- the line framer on its own ----------------------- *)
\* The subprocess writes one arbitrary byte to its stdout.
ProcEmit ==
    /\ proc = "running"
    /\ ~outClosed
    /\ Len(stream) < MaxStream
    /\ \E b \in {NL, 1, 2} :
        /\ pipe' = Append(pipe, b)
        /\ stream' = Append(stream, b)
    /\ UNCHANGED <<produced, consumed, readEnd, pc, slicer_lock, lines,
                   closed, chunk, stdin, proc, outClosed, kills, joins, waits,
                   winners, opsLeft, req, result, entryClosed, nextId, unsol,
                   eofWhen, payload, cand>>

FramerInit ==
    /\ ClientInit
    /\ opsLeft = 0
    /\ stream = <<>>
    /\ payload = <<>>
    /\ cand = NoCand

\* listen() against a subprocess that writes any bytes, then closes stdout;
\* no caller is active.
FramerNext ==
    \/ ProcEmit
    \/ ProcCloseOut
    \/ ProcExit
    \/ ListenRead
    \/ ListenAppend
    \/ ListenEOF
    \/ CloseLock(Reader)
    \/ CloseCheck(Reader)
    \/ CloseKill(Reader)
    \/ CloseWait(Reader)

FramerSpec == FramerInit /\ [][FramerNext]_vars

\* The positions of the newlines of s, and the k-th of them.
NLSet(s) == {i \in 1..Len(s) : s[i] = NL}

KthNL(s, k) == CHOOSE i \in NLSet(s) : Cardinality({j \in NLSet(s) : j < i}) = k - 1

\* The newline-terminated segments of s, in order, without their newlines.
LinesOf(s) ==
    [k \in 1..Cardinality(NLSet(s)) |->
        SubSeq(s, IF k = 1 THEN 1 ELSE KthNL(s, k - 1) + 1, KthNL(s, k) - 1)]

RECURSIVE Unframed(_)
\* The bytes of a sequence of lines, each followed by its newline.
Unframed(ls) ==
    IF ls = <<>> THEN <<>> ELSE Head(ls) \o <<NL>> \o Unframed(Tail(ls))

\* C9: chunking invariance of the framer.  However the bytes the subprocess
\* wrote were cut into reads, the lines appended to the queue are the first
\* newline-terminated segments of the stream, in order; once the reader has
\* seen EOF they are all of them; and queue, remainder and unread bytes
\* together are exactly the stream (nothing dropped, duplicated, reordered).
C9_ChunkingInvariance ==
    /\ Len(lines) <= Len(LinesOf(stream))
    /\ \A k \in 1..Len(lines) : lines[k] = LinesOf(stream)[k]
    /\ pc[Reader] # "listen" => lines = LinesOf(stream)
    /\ Unframed(lines) \o chunk \o pipe = stream

\* a stream of two lines and an unterminated tail has been framed to its end
C9_Witness ==
    /\ pc[Reader] = "done"
    /\ Len(lines) = 2
    /\ lines[2] # <<>>
    /\ chunk # <<>>

(* ------------------- candidates_response's decoding ------------------- *)
\* Text is a sequence of one-character strings.
CandChars == {"1", "2", ",", " ", "f", "\n"}
Digits == {"0", "1", "2", "3", "4", "5", "6", "7", "8", "9"}

\* the characters str.strip() and int() treat as whitespace
IsSpace(c) == c \in {" ", "\n", "\t", "\r"}

RECURSIVE LStrip(_)
LStrip(s) == IF s # <<>> /\ IsSpace(Head(s)) THEN LStrip(Tail(s)) ELSE s

RECURSIVE RStrip(_)
RStrip(s) ==
    IF s # <<>> /\ IsSpace(s[Len(s)]) THEN RStrip(SubSeq(s, 1, Len(s) - 1)) ELSE s

\* the payload taken as it is
NoStrip(s) == s

\* data.strip() (slicer.py:104)
Strip(s) == RStrip(LStrip(s))

RECURSIVE SplitRows(_)
\* .split('\n') (slicer.py:104): the pieces between newlines, empty ones too
SplitRows(s) ==
    IF \E i \in 1..Len(s) : s[i] = "\n"
    THEN LET i == CHOOSE i \in 1..Len(s) :
                    s[i] = "\n" /\ \A j \in 1..(i - 1) : s[j] # "\n"
         IN  <<SubSeq(s, 1, i - 1)>> \o SplitRows(SubSeq(s, i + 1, Len(s)))
    ELSE <<s>>

DelimAt(s, i) == i + 1 <= Len(s) /\ s[i] = "," /\ s[i + 1] = " "

\* `line and ', ' in line` (slicer.py:105)
KeepRow(line) == line # <<>> /\ \E i \in 1..Len(line) : DelimAt(line, i)

\* line.split(', ', 1) (slicer.py:103), for a line that holds ', '
SplitDelim(line) ==
    LET i == CHOOSE i \in 1..Len(line) :
                DelimAt(line, i) /\ \A j \in 1..(i - 1) : ~DelimAt(line, j)
    IN  <<SubSeq(line, 1, i - 1), SubSeq(line, i + 2, Len(line))>>

\* int(row[0]) (slicer.py:108) accepts digits with whitespace around them
\* (a sign is not in the alphabet) and raises ValueError otherwise
IntOk(s) == Strip(s) # <<>> /\ \A i \in 1..Len(Strip(s)) : Strip(s)[i] \in Digits

DigitVal(c) ==
    CASE c = "0" -> 0 [] c = "1" -> 1 [] c = "2" -> 2 [] c = "3" -> 3 [] c = "4" -> 4
      [] c = "5" -> 5 [] c = "6" -> 6 [] c = "7" -> 7 [] c = "8" -> 8 [] c = "9" -> 9

RECURSIVE Decimal(_)
Decimal(s) ==
    IF s = <<>> THEN 0 ELSE 10 * Decimal(SubSeq(s, 1, Len(s) - 1)) + DigitVal(s[Len(s)])

IntOf(s) == Decimal(Strip(s))

\* the else branch of candidates_response (slicer.py:102-110): the list of
\* records, or the ValueError of the first int() that fails
candidates_rows(data) ==
    LET rows == SelectSeq(SplitRows(Strip(data)), KeepRow)
        split == [i \in 1..Len(rows) |-> SplitDelim(rows[i])]
    IN  IF \E i \in 1..Len(rows) : ~IntOk(split[i][1])
        THEN [done |-> TRUE, raised |-> TRUE, rows |-> <<>>]
        ELSE [done |-> TRUE, raised |-> FALSE,
              rows |-> [i \in 1..Len(rows) |->
                          [label |-> split[i][2], count |-> IntOf(split[i][1])]]]

\* the payload of the documented scenario: "2, foo\n1, bar\n"
Example ==
    <<"2", ",", " ", "f", "o", "o", "\n", "1", ",", " ", "b", "a", "r", "\n">>

CandInit ==
    /\ ClientInit
    /\ opsLeft = 0
    /\ stream = <<>>
    /\ payload \in Seqs(CandChars, MaxPayload) \cup {Example}
    /\ cand = NoCand

\* candidates_response on a CANDIDATES line whose decoded payload is `payload`
CandidatesResponse ==
    /\ ~cand.done
    /\ cand' = candidates_rows(payload)
    /\ UNCHANGED <<produced, consumed, readEnd, pc, slicer_lock, lines,
                   closed, chunk, pipe, stdin, proc, outClosed, kills, joins,
                   waits, winners, opsLeft, req, result, entryClosed, nextId,
                   unsol, eofWhen, stream, payload>>

CandNext == CandidatesResponse

CandSpec == CandInit /\ [][CandNext]_vars

\* The rows of a text: the k-th row lies between the (k-1)-th and the k-th
\* newline, the last one after the last newline.
RowBreaks(s) == {i \in 1..Len(s) : s[i] = "\n"}

RowStart(s, k) ==
    IF k = 1 THEN 1
    ELSE 1 + (CHOOSE i \in RowBreaks(s) :
                 Cardinality({j \in RowBreaks(s) : j < i}) = k - 2)

RowEnd(s, k) ==
    IF k = Cardinality(RowBreaks(s)) + 1 THEN Len(s)
    ELSE (CHOOSE i \in RowBreaks(s) :
             Cardinality({j \in RowBreaks(s) : j < i}) = k - 1) - 1

RowsIn(s) ==
    [k \in 1..(Cardinality(RowBreaks(s)) + 1) |-> SubSeq(s, RowStart(s, k), RowEnd(s, k))]

HasDelim(row) == \E i \in 1..(Len(row) - 1) : row[i] = "," /\ row[i + 1] = " "

DelimPos(row) ==
    CHOOSE i \in 1..(Len(row) - 1) :
        /\ row[i] = "," /\ row[i + 1] = " "
        /\ \A j \in 1..(i - 1) : ~(row[j] = "," /\ row[j + 1] = " ")

\* the text before the first ', ' of a row reads as an integer
CountText(row) == SubSeq(row, 1, DelimPos(row) - 1)

Trimmed(s) ==
    LET ink == {i \in 1..Len(s) : ~IsSpace(s[i])}
    IN  IF ink = {} THEN <<>>
        ELSE SubSeq(s, CHOOSE i \in ink : \A j \in ink : i <= j,
                       CHOOSE i \in ink : \A j \in ink : j <= i)

IsInteger(s) == Trimmed(s) # <<>> /\ \A i \in 1..Len(Trimmed(s)) : Trimmed(s)[i] \in Digits

Value(s) ==
    LET d == Trimmed(s)
        Pow10[n \in 0..Len(d)] == IF n = 0 THEN 1 ELSE 10 * Pow10[n - 1]
        Sum[n \in 0..Len(d)] ==
            IF n = 0 THEN 0 ELSE Sum[n - 1] + DigitVal(d[n]) * Pow10[Len(d) - n]
    IN  Sum[Len(d)]

\* one {count, label} record per row holding ', ', in row order
RecordsOf(rows) ==
    LET kept == SelectSeq(rows, HasDelim)
    IN  [i \in 1..Len(kept) |->
            [label |-> SubSeq(kept[i], DelimPos(kept[i]) + 2, Len(kept[i])),
             count |-> Value(CountText(kept[i]))]]

CountsAreIntegers(rows) ==
    \A k \in 1..Len(rows) : HasDelim(rows[k]) => IsInteger(CountText(rows[k]))

\* C10 as stated: candidates_response returns one {count, label} record per
\* row of the decoded payload that holds ', ', in payload order, count the
\* integer before the first ', ' and label everything after it; rows without
\* ', ' contribute nothing.
C10_RowsOfPayload ==
    (cand.done /\ CountsAreIntegers(RowsIn(payload)))
        => (~cand.raised /\ cand.rows = RecordsOf(RowsIn(payload)))

\* C10 amended: the rows are those of the payload with its leading and
\* trailing whitespace removed.  candidates_response returns one record per
\* such row holding ', ', in order, count the integer before the first ', '
\* and label everything after it; it raises exactly when the text before the
\* first ', ' of some such row is not an integer.
C10_RowsOfStrippedPayload ==
    cand.done =>
        IF CountsAreIntegers(RowsIn(Trimmed(payload)))
        THEN ~cand.raised /\ cand.rows = RecordsOf(RowsIn(Trimmed(payload)))
        ELSE cand.raised

\* the documented scenario decodes to [{2, foo}, {1, bar}]
C10_Witness ==
    /\ cand.done
    /\ payload = Example
    /\ cand.rows = <<[label |-> <<"f", "o", "o">>, count |-> 2],
                     [label |-> <<"b", "a", "r">>, count |-> 1]>>
(* ------------------- shutdown and the command lock -------------------- *)
\* C11: if another thread calls close() while a command is blocked awaiting
\* its response, close() proceeds: right after it is entered, its first
\* step, into the check-and-set of the closed flag that wakes the waiter,
\* can be taken.
C11_CloseUnblocksCommand ==
    [][\A u \in Callers :
          (/\ pc[u] = "idle" /\ pc'[u] = "close_lock"
           /\ \E t \in Callers : pc[t] = "wait")
          => (ENABLED CloseLock(u))']_vars

\* C12: a shutdown that won the closed flag sets the flag, then kills, then
\* (only a caller) joins the reader, then waits on the process: the reader
\* never joins, and no wait comes before the kill or, in a caller, before
\* the join.
C12_ShutdownOrder ==
    /\ \A t \in Threads :
          /\ pc[t] = "close_kill" =>
                (t \in winners /\ closed /\ kills = 0 /\ joins = 0 /\ waits = 0)
          /\ pc[t] = "close_join" =>
                (t \in winners /\ closed /\ kills = 1 /\ joins = 0 /\ waits = 0)
          /\ pc[t] = "close_wait" =>
                (/\ t \in winners /\ closed /\ kills = 1 /\ waits = 0
                 /\ joins = IF t = Reader THEN 0 ELSE 1)
    /\ pc[Reader] # "close_join"
    /\ Reader \in winners => joins = 0
    /\ waits <= kills /\ joins <= kills
    /\ (waits = 1 /\ Reader \notin winners) => joins = 1

\* a caller's close() went through kill, join and wait, and has returned
C12_Witness ==
    /\ kills = 1 /\ joins = 1 /\ waits = 1
    /\ \E t \in Callers : t \in winners /\ pc[t] = "idle" /\ result[t].out = "closed"

\* C13: the command lock is held only by a thread inside command()'s
\* write-then-read sequence: no reader step and no shutdown step takes it.
C13_LockOnlyInCommand ==
    slicer_lock # NoThread =>
        (slicer_lock \in Callers /\ pc[slicer_lock] \in {"cmd_write", "get_line", "wait"})
(* ------------------------ the reader's last read ----------------------- *)
\* C14: when the reader's read returns EOF or raises, the reader enters the
\* reader-tagged shutdown, and that is the only way and the only time it
\* enters it; from then on it never goes back to its loop: it reads nothing
\* more from the pipe, its remainder buffer stays as it was, and no line is
\* appended to the queue.
C14_ReaderStopsAfterShutdown ==
    [][/\ (readEnd = "none" /\ readEnd' # "none")
            => (pc[Reader] = "listen" /\ pc'[Reader] = "close_lock")
       /\ (pc[Reader] # "close_lock" /\ pc'[Reader] = "close_lock")
            => (readEnd = "none" /\ readEnd' # "none")
       /\ readEnd # "none"
            => /\ readEnd' = readEnd
               /\ pc[Reader] # "listen" /\ pc'[Reader] # "listen"
               /\ chunk' = chunk
               /\ Len(pipe') >= Len(pipe)
               /\ Len(lines') <= Len(lines)]_vars

\* the reader's read raised with bytes still unread in the pipe; the reader
\* ran the shutdown itself and its thread has ended
C14_Witness ==
    /\ pc[Reader] = "done" /\ readEnd = "error" /\ Reader \in winners
    /\ pipe # <<>>
(* -------------------------- a failed write ----------------------------- *)
\* C15: a command whose write of the request fails (the subprocess is gone)
\* shuts the connection down: when the command ends, the closed flag is set,
\* the subprocess has been killed, and the command has failed with the
\* closed error.
C15_WriteErrorShutsDown ==
    [][\A t \in Callers :
          (pc[t] = "cmd_write" /\ pc'[t] # "cmd_write" /\ proc = "exited")
          => (closed' /\ kills' >= 1 /\ result'[t].out = "closed")]_vars
(* --------------------------- the line queue ---------------------------- *)
\* C16: the line queue is a FIFO with one producer and one consumer.  The
\* queue changes only when the reader, in its loop, appends the first line
\* of its remainder at the tail, or when a caller in get_line() removes the
\* head; a response read that returns a line removes exactly one.  So the
\* lines consumed so far, followed by the queue, are the lines produced so
\* far: the consumed sequence is a prefix of the produced one.
C16_QueueIsFIFO ==
    /\ [](produced = consumed \o lines)
    /\ [][/\ lines' # lines =>
               \/ /\ pc[Reader] = "listen" /\ HasNL(chunk)
                  /\ lines' = Append(lines, SplitFirst(chunk)[1])
                  /\ consumed' = consumed
               \/ \E t \in Callers :
                      /\ pc[t] = "get_line" /\ pc'[t] = "idle"
                      /\ lines # <<>> /\ lines' = Tail(lines)
                      /\ consumed' = Append(consumed, Head(lines))
                      /\ produced' = produced
          /\ \A t \in Callers :
                (pc[t] = "get_line" /\ pc'[t] = "idle" /\ result'[t].out # "closed")
                => (lines # <<>> /\ lines' = Tail(lines)
                    /\ result'[t].line = process_line(Head(lines))[2])]_vars

\* two lines have been consumed, by two commands, and a third is queued
C16_Witness ==
    /\ Len(consumed) = 2 /\ Len(lines) = 1
    /\ produced = consumed \o lines
    /\ nextId = 3
\* C17: bytes after the last newline are never enqueued.  Every line ever
\* appended is a newline-terminated segment of the stream; once the reader
\* has seen EOF, the lines appended are exactly those segments, and what
\* followed the last newline sits in the reader's remainder, in no line.
C17_TailDiscarded ==
    /\ Len(produced) <= Len(LinesOf(stream))
    /\ \A k \in 1..Len(produced) : produced[k] = LinesOf(stream)[k]
    /\ readEnd = "eof" =>
          /\ pipe = <<>>
          /\ ~HasNL(chunk)
          /\ Len(produced) = Cardinality(NLSet(stream))
          /\ Unframed(produced) \o chunk = stream

\* the stream ended with an unterminated tail after one line; the reader
\* finished its shutdown and the queue holds that one line only
C17_Witness ==
    /\ readEnd = "eof" /\ pc[Reader] = "done"
    /\ Len(stream) = MaxStream
    /\ Len(chunk) >= 2
    /\ Len(lines) = 1
(* ------------------ lines nobody is waiting for ----------------------- *)
\* The subprocess emits its unsolicited line at a moment when no command is
\* in flight.
ProcUnsolicitedIdle ==
    /\ InFlight = {}
    /\ ProcUnsolicited

\* the client against a subprocess whose unsolicited lines come between
\* commands
QuietNext ==
    \/ ListenRead
    \/ ListenEOF
    \/ ListenError
    \/ ListenAppend
    \/ \E t \in Threads : CloseLock(t)
    \/ \E t \in Threads : CloseCheck(t)
    \/ \E t \in Threads : CloseKill(t)
    \/ \E t \in Callers : CloseJoin(t)
    \/ \E t \in Threads : CloseWait(t)
    \/ \E t \in Callers : StartClose(t)
    \/ \E t \in Callers : StartCommand(t)
    \/ \E t \in Callers : CmdLock(t)
    \/ \E t \in Callers : CmdWrite(t)
    \/ \E t \in Callers : GetLine(t)
    \/ ProcRespond
    \/ ProcUnsolicitedIdle
    \/ ProcCloseOut
    \/ ProcExit

QuietSpec == Init /\ [][QuietNext]_vars

\* C18: a line emitted while no command is in flight is not discarded.  The
\* reader appends every line it splits off its remainder; while no command
\* is in flight the queue loses nothing; and a command that finds at the
\* head of the queue a line that is not the reply to its own request takes
\* exactly that line as its response and ends on it, without waiting.
C18_UnsolicitedLineConsumed ==
    [][/\ (pc[Reader] = "listen" /\ HasNL(chunk) /\ chunk' # chunk)
            => lines' = Append(lines, SplitFirst(chunk)[1])
       /\ InFlight = {}
            => (Len(lines') >= Len(lines) /\ SubSeq(lines', 1, Len(lines)) = lines)
       /\ \A t \in Callers :
             (/\ pc[t] = "get_line" /\ pc'[t] # "get_line"
              /\ lines # <<>> /\ process_line(Head(lines))[2] # req[t])
             => /\ pc'[t] = "idle"
                /\ lines' = Tail(lines)
                /\ result'[t].op = "command"
                /\ result'[t].line = process_line(Head(lines))[2]
                /\ result'[t].out = generic_response(process_line(Head(lines))[1])]_vars

\* the first command ever issued has ended on the unsolicited line, while
\* its own request is still unanswered in the subprocess
C18_Witness ==
    \E t \in Callers :
        /\ pc[t] = "idle" /\ result[t].op = "command"
        /\ unsol = 1 /\ result[t].line = 0
        /\ req[t] = 1 /\ nextId = 2 /\ stdin = <<1>>
        /\ consumed = produced /\ Len(consumed) = 1
(* ------------------- the queue after the closed flag ------------------- *)
\* C19: get_line() fails with the closed error only when the closed flag is
\* set and the queue is empty.  A command ends with the closed error only
\* from such a state; a response read that finds a line takes it, closed or
\* not; and once the flag is set, a reader still in its loop with a complete
\* line in its remainder can still append it.
C19_ClosedOnlyWhenEmpty ==
    [][/\ \A t \in Callers :
             (result'[t] # result[t] /\ result'[t].op = "command"
                /\ result'[t].out = "closed")
             => (pc[t] = "get_line" /\ closed /\ lines = <<>>)
       /\ \A t \in Callers :
             (pc[t] = "get_line" /\ pc'[t] # "get_line" /\ lines # <<>>)
             => /\ pc'[t] = "idle"
                /\ lines' = Tail(lines)
                /\ result'[t].out # "closed"
                /\ result'[t].line = process_line(Head(lines))[2]
       /\ (closed /\ pc[Reader] = "listen" /\ HasNL(chunk))
             => ENABLED ListenAppend]_vars

\* a command entered after the closed flag was set has received the reply
\* to its request: the reader appended it, and get_line() delivered it,
\* with the flag set
C19_Witness ==
    \E t \in Callers :
        /\ entryClosed[t] /\ closed
        /\ pc[t] = "idle" /\ result[t].op = "command"
        /\ result[t].out = "ok" /\ result[t].line = req[t]
        /\ unsol = 0
(* ---------------------------- the lifecycle ---------------------------- *)
\* C20: the lifecycle only moves forward.  The closed flag starts false; no
\* step clears it; and the subprocess is killed or waited on only by a step
\* taken with the flag already set.
C20_LifecycleForward ==
    /\ ~closed
    /\ [][/\ closed => closed'
          /\ kills' # kills => (closed /\ closed')
          /\ waits' # waits => (closed /\ closed')]_vars
    /\ [](kills + waits > 0 => closed)

\* the reader shut the connection down: flag set, subprocess killed and
\* reaped, and a command issued afterwards has failed
C20_Witness ==
    /\ closed /\ Reader \in winners
    /\ kills = 1 /\ waits = 1 /\ proc = "exited"
    /\ \E t \in Callers : entryClosed[t] /\ result[t].op = "command"
====
